---------------------------- MODULE Spec2Model ----------------------------
(***************************************************************************)
(* Document management backend: version chains, access control and the     *)
(* document routes (src/routes/documents.js, src/middleware/upload.js,     *)
(* the Document schema).  Every route handler is one action; the metadata  *)
(* store is the function docs, the blob store is the set blobs.            *)
(***************************************************************************)
EXTENDS Integers, Sequences, FiniteSets, TLC

(***************************************************************************)
(* Bounds of the model.                                                    *)
(***************************************************************************)
MaxUploads == 3        \* uploads that reach the blob write (chain runs)
MaxAccessUploads == 2  \* uploads that reach the blob write (access runs)
MaxDownloads == 1      \* highest downloadCount a record reaches
MaxFaultUploads == 2   \* uploads that reach the blob write (fault runs)
MaxListUploads == 2    \* uploads that reach the blob write (listing runs)
MaxFetchUploads == 1   \* uploads that reach the blob write (fetch runs)
MaxRaceUploads == 1    \* uploads that reach the blob write (interleaved runs)
MaxInFlight == 2       \* downloads between their read and their write
MaxRaceDownloads == 2  \* highest downloadCount an interleaved run writes
MaxResolveUploads == 1 \* uploads that reach the blob write (resolver runs)
MaxStepUploads == 3    \* uploads that reach the blob write (stepwise runs)
MaxStepDeletes == 1    \* deletes between their read and their response
MaxFanOutUploads == 2  \* uploads that reach the blob write (fan-out runs)
MaxVersionsUploads == 3 \* uploads that reach the blob write (version listings)

(***************************************************************************)
(* Inputs of the requests.                                                 *)
(***************************************************************************)
Users == {"alice", "root"}
Role(u) == IF u = "root" THEN "admin" ELSE "user"
FileNames == {"report", "notes"}
NoPin == << >>
Pins == {NoPin, <<1, 2>>, <<1, 2, 3, 4>>}
AccessLevels == {"public", "private", "protected"}
AccessLevelInputs == AccessLevels \cup {"secret"}
PdfOnly == {"application/pdf"}
Null == 0
BadId == -1
NoHash == [alg |-> "none", of |-> NoPin]
\* file contents: sequences of bytes
FileBytes == <<7>>
NoFileHash == [alg |-> "none", of |-> << >>]

VARIABLES docs, nextId, blobs, last, calls, listing, inflight, contents, resolved

vars == <<docs, nextId, blobs, last, calls, listing, inflight, contents, resolved>>

(***************************************************************************)
(* bcryptjs, as the routes use it.                                         *)
(***************************************************************************)
BcryptHash(pin) == [alg |-> "bcrypt", of |-> pin]

BcryptCompare(pin, hash) == BcryptHash(pin) = hash

(***************************************************************************)
(* Queries of the metadata store.                                          *)
(***************************************************************************)
Ids == DOMAIN docs

Chain(user, name) ==
  {i \in Ids : docs[i].baseFileName = name /\ docs[i].uploadedBy = user}

ChainOf(i) == Chain(docs[i].uploadedBy, docs[i].baseFileName)

\* Document.find({baseFileName, uploadedBy}).sort({version: -1}): the
\* candidates for existingDocs[0] (every record with the highest version)
First(chain) == {i \in chain : \A j \in chain : docs[j].version <= docs[i].version}

NoDocument ==
  [uploadedBy |-> "", baseFileName |-> "", version |-> 0,
   isLatestVersion |-> FALSE, parentDocument |-> Null,
   versionHistory |-> << >>, accessLevel |-> "", accessPin |-> NoHash,
   downloadCount |-> 0, dropboxPath |-> Null, category |-> "",
   fileHash |-> NoFileHash]

NoRequest ==
  [op |-> "none", id |-> Null, user |-> "", pin |-> NoPin, status |-> 0,
   message |-> "", requiresPin |-> FALSE, hasAccess |-> FALSE,
   document |-> NoDocument]

Respond(op, id, user, pin, status, message, document) ==
  [op |-> op, id |-> id, user |-> user, pin |-> pin, status |-> status,
   message |-> message, requiresPin |-> FALSE, hasAccess |-> FALSE,
   document |-> document]

\* the answer of GET / before the first listing
NoListing == [documents |-> << >>, total |-> 0]

\* downloadFromDropbox before its first run
NotResolved == [calls |-> << >>, result |-> "none", body |-> << >>]

\* one call of a handler to the blob store or to the metadata store
Dropbox(api, result) == [to |-> "dropbox", api |-> api, result |-> result]

Db(api, result) == [to |-> "db", api |-> api, result |-> result]

Init ==
  /\ docs = << >>
  /\ nextId = 1
  /\ blobs = {}
  /\ last = NoRequest
  /\ calls = << >>
  /\ listing = NoListing
  /\ inflight = << >>
  /\ contents = << >>
  /\ resolved = NotResolved

(***************************************************************************)
(* POST /upload                                                            *)
(***************************************************************************)
\* the category of the upload route, from req.file.mimetype
Category(mimetype) ==
  IF mimetype \in {"image/png", "image/jpeg", "image/gif"} THEN "image"
  ELSE IF mimetype = "application/pdf" THEN "pdf"
  ELSE IF mimetype \in {"text/plain",
       "application/vnd.openxmlformats-officedocument.wordprocessingml.document"}
    THEN "document"
  ELSE "other"

\* calculateFileHash: SHA-256 of the buffer
CalculateFileHash(buffer) == [alg |-> "sha256", of |-> buffer]

\* dbx.filesUpload({path, contents, mode: "add", autorename: true}): the
\* file is written at a path no other file has
FilesUpload(store, path, buffer) ==
  [p \in DOMAIN store \cup {path} |-> IF p = path THEN buffer ELSE store[p]]

NewDocument(user, name, category, accessLevel, hashedPin, version, parentDocument, path) ==
  [fileHash |-> NoFileHash,
   uploadedBy |-> user, baseFileName |-> name, version |-> version,
   isLatestVersion |-> TRUE, parentDocument |-> parentDocument,
   versionHistory |-> << >>, accessLevel |-> accessLevel,
   accessPin |-> hashedPin, downloadCount |-> 0, dropboxPath |-> path,
   category |-> category]

\* the flip of the previous versions left out
MarkNotLatestOmitted(store, user, name) == store

\* Document.updateMany({baseFileName, uploadedBy}, {isLatestVersion: false})
MarkNotLatest(store, user, name) ==
  [i \in DOMAIN store |->
     IF store[i].baseFileName = name /\ store[i].uploadedBy = user
       THEN [store[i] EXCEPT !.isLatestVersion = FALSE]
       ELSE store[i]]

\* Document.updateMany({$or: [{_id: parent}, {parentDocument: parent},
\*                            {_id: id}]}, {$push: {versionHistory: entry}})
PushHistory(store, parent, id, entry) ==
  [i \in DOMAIN store |->
     IF i = parent \/ store[i].parentDocument = parent \/ i = id
       THEN [store[i] EXCEPT !.versionHistory = Append(@, entry)]
       ELSE store[i]]

\* existingDocs[0], or Null when the query finds nothing
ExistingTop(user, name) ==
  IF Chain(user, name) = {} THEN {Null} ELSE First(Chain(user, name))

\* the version taken from the number of records instead of the highest one
ResolveVersionByCount(top) ==
  IF top = Null THEN 1 ELSE Cardinality(ChainOf(top)) + 1

\* version = existingDocs[0].version + 1
ResolveVersion(top) == IF top = Null THEN 1 ELSE docs[top].version + 1

\* the parent taken as the previous version instead of the chain root
ResolveParentPrevious(top) == top

\* parentDocument = existingDocs[0].parentDocument || existingDocs[0]._id
ResolveParent(top) ==
  IF top = Null THEN Null
  ELSE IF docs[top].parentDocument # Null THEN docs[top].parentDocument
  ELSE top

\* !["public", "private", "protected"].includes(accessLevel)
InvalidAccessLevel(accessLevel) == accessLevel \notin AccessLevels

\* the PIN check without the length
PinMissing(accessLevel, accessPin) ==
  accessLevel = "protected" /\ accessPin = NoPin

\* accessLevel === "protected" && (!accessPin || accessPin.length < 4)
PinTooShort(accessLevel, accessPin) ==
  accessLevel = "protected" /\ (accessPin = NoPin \/ Len(accessPin) < 4)

\* the PIN hashed whenever the request carries one
HashedPinWhenSupplied(accessLevel, accessPin) ==
  IF accessPin # NoPin THEN BcryptHash(accessPin) ELSE NoHash

\* hashedPin: null unless accessLevel === "protected" && accessPin
HashedPin(accessLevel, accessPin) ==
  IF accessLevel = "protected" /\ accessPin # NoPin
    THEN BcryptHash(accessPin) ELSE NoHash

\* the upload route with the chain query and the flip ahead of the blob write
UploadCallsFindFirst(existing, dropboxOk, saveOk) ==
  <<Db("find", "ok")>>
  \o (IF existing THEN <<Db("updateMany", "ok")>> ELSE << >>)
  \o (IF ~dropboxOk THEN <<Dropbox("filesUpload", "failed")>>
      ELSE <<Dropbox("filesUpload", "ok")>>
           \o (IF saveOk
                 THEN <<Db("save", "ok"), Db("updateMany", "ok"),
                        Db("populate", "ok")>>
                 ELSE <<Db("save", "failed")>>))

\* the calls of the upload route that gets past its validation, in order
UploadCalls(existing, dropboxOk, saveOk) ==
  IF ~dropboxOk THEN <<Dropbox("filesUpload", "failed")>>
  ELSE <<Dropbox("filesUpload", "ok"), Db("find", "ok")>>
       \o (IF existing THEN <<Db("updateMany", "ok")>> ELSE << >>)
       \o (IF saveOk
             THEN <<Db("save", "ok"), Db("updateMany", "ok"), Db("populate", "ok")>>
             ELSE <<Db("save", "failed")>>)

\* the calls of an upload whose $push of the versionHistory entry throws
UploadCallsPushFailed(existing) ==
  <<Dropbox("filesUpload", "ok"), Db("find", "ok")>>
  \o (IF existing THEN <<Db("updateMany", "ok")>> ELSE << >>)
  \o <<Db("save", "ok"), Db("updateMany", "failed")>>

UploadFile(user, name, mimetype, buffer, accessLevel, accessPin, dropboxOk, saveOk, pushOk, max) ==
  /\ nextId <= max
  /\ IF InvalidAccessLevel(accessLevel)
       THEN /\ last' = Respond("upload", Null, "", NoPin, 400,
                               "Invalid access level", NoDocument)
            /\ calls' = << >>
            /\ UNCHANGED <<docs, nextId, blobs, contents>>
     ELSE IF PinTooShort(accessLevel, accessPin)
       THEN /\ last' = Respond("upload", Null, "", NoPin, 400,
                               "Protected files require a PIN", NoDocument)
            /\ calls' = << >>
            /\ UNCHANGED <<docs, nextId, blobs, contents>>
     ELSE IF ~dropboxOk
       THEN /\ last' = Respond("upload", Null, "", NoPin, 500,
                               "Cloud storage error", NoDocument)
            /\ calls' = UploadCalls(Chain(user, name) # {}, dropboxOk, saveOk)
            /\ UNCHANGED <<docs, nextId, blobs, contents>>
     ELSE
       \E top \in ExistingTop(user, name) :
         LET version == ResolveVersion(top)
             parentDocument == ResolveParent(top)
             flipped == IF top # Null THEN MarkNotLatest(docs, user, name) ELSE docs
             hashedPin == HashedPin(accessLevel, accessPin)
             id == nextId
             document == [NewDocument(user, name, Category(mimetype),
                                      accessLevel, hashedPin,
                                      version, parentDocument, id)
                            EXCEPT !.fileHash = CalculateFileHash(buffer)]
             entry == [version |-> version, documentId |-> id, uploadedBy |-> user]
             saved == [i \in DOMAIN flipped \cup {id} |->
                         IF i = id THEN document ELSE flipped[i]]
         IN /\ blobs' = blobs \cup {id}
            /\ contents' = FilesUpload(contents, id, buffer)
            /\ nextId' = nextId + 1
            /\ calls' = IF saveOk /\ ~pushOk
                          THEN UploadCallsPushFailed(top # Null)
                          ELSE UploadCalls(top # Null, dropboxOk, saveOk)
            /\ IF ~saveOk
                 THEN /\ docs' = flipped
                      /\ last' = Respond("upload", Null, "", NoPin, 400,
                                         "Document validation failed", NoDocument)
               ELSE IF ~pushOk
                 THEN /\ docs' = saved
                      /\ last' = Respond("upload", id, "", NoPin, 500,
                                         "Upload failed", document)
                 ELSE /\ docs' = PushHistory(saved, parentDocument, id, entry)
                      /\ last' = Respond("upload", id, "", NoPin, 201,
                                         "Document uploaded successfully", document)

\* the upload route for a file of the content FileBytes
UploadRequest(user, name, mimetype, accessLevel, accessPin, dropboxOk, saveOk, max) ==
  UploadFile(user, name, mimetype, FileBytes, accessLevel, accessPin, dropboxOk,
             saveOk, TRUE, max)

Upload ==
  \E user \in Users, name \in FileNames, mimetype \in PdfOnly,
     accessLevel \in AccessLevelInputs,
     accessPin \in Pins, dropboxOk \in BOOLEAN :
    /\ UploadRequest(user, name, mimetype, accessLevel, accessPin, dropboxOk,
                     TRUE, MaxUploads)
    /\ UNCHANGED <<listing, inflight, resolved>>

(***************************************************************************)
(* DELETE /:id                                                             *)
(***************************************************************************)
\* filesDeleteV2 as the blob store can answer it for a path
DeleteOutcomes(path) ==
  (IF path \in blobs THEN {"deleted"} ELSE {"not_found"}) \cup {"failed"}

\* deleteFromDropbox: the paths left in the blob store
DeleteFromDropbox(path, outcome) ==
  IF outcome = "deleted" THEN blobs \ {path} ELSE blobs

\* the lookup of the previous version off by one
PreviousVersionOffByOne(document) ==
  {i \in Chain(document.uploadedBy, document.baseFileName) :
     docs[i].version = document.version - 2}

\* Document.findOne({baseFileName, uploadedBy, version: document.version - 1})
PreviousVersion(document) ==
  {i \in Chain(document.uploadedBy, document.baseFileName) :
     docs[i].version = document.version - 1}

\* the $pull without the {_id: parent} clause of its filter
PullHistoryChildrenOnly(store, parent, id) ==
  [i \in DOMAIN store |->
     IF store[i].parentDocument = parent
       THEN [store[i] EXCEPT !.versionHistory =
               SelectSeq(@, LAMBDA e : e.documentId # id)]
       ELSE store[i]]

\* Document.updateMany({$or: [{_id: parent}, {parentDocument: parent}]},
\*                     {$pull: {versionHistory: {documentId: id}}})
PullHistory(store, parent, id) ==
  [i \in DOMAIN store |->
     IF i = parent \/ store[i].parentDocument = parent
       THEN [store[i] EXCEPT !.versionHistory =
               SelectSeq(@, LAMBDA e : e.documentId # id)]
       ELSE store[i]]

\* Document.findByIdAndDelete(id)
Remove(store, id) == [i \in DOMAIN store \ {id} |-> store[i]]

\* the permission check that lets any caller delete a public document
MayDeleteByAccessLevel(document, user) ==
  \/ Role(user) = "admin" \/ document.uploadedBy = user
  \/ document.accessLevel = "public"

\* req.user.role === "admin" || document.uploadedBy equals req.user._id
MayDelete(document, user) ==
  Role(user) = "admin" \/ document.uploadedBy = user

\* the route without the try/catch around deleteFromDropbox
AbortsDeleteOnFailure(outcome) == outcome = "failed"

\* whether what deleteFromDropbox throws ends the route: the route catches
\* it and goes on with the metadata
AbortsDelete(outcome) == FALSE

\* the metadata calls of an authorized delete after the blob delete, in order
DeleteSteps(repoint, previousVersion) ==
  (IF repoint THEN <<"findOne">> ELSE << >>)
  \o (IF previousVersion # Null THEN <<"save">> ELSE << >>)
  \o <<"updateMany", "findByIdAndDelete">>

Position(steps, step) ==
  IF \E k \in 1..Len(steps) : steps[k] = step
    THEN CHOOSE k \in 1..Len(steps) : steps[k] = step
    ELSE Len(steps) + 1

\* the step is reached and does not fail
Done(steps, step, dbFail) == Position(steps, step) < Position(steps, dbFail)

DbCalls(steps, dbFail) ==
  [k \in 1..(IF Position(steps, dbFail) <= Len(steps)
               THEN Position(steps, dbFail) ELSE Len(steps)) |->
     Db(steps[k], IF steps[k] = dbFail THEN "failed" ELSE "ok")]

DeleteRequest(id, user, outcome, dbFail) ==
  IF id = BadId \/ dbFail = "findById"
    THEN /\ last' = Respond("delete", id, "", NoPin, 500,
                            IF id = BadId THEN "Cast to ObjectId failed"
                                          ELSE "database error",
                            NoDocument)
         /\ calls' = <<Db("findById", "failed")>>
         /\ UNCHANGED <<docs, nextId, blobs, contents>>
  ELSE IF id \notin Ids
    THEN /\ last' = Respond("delete", id, "", NoPin, 404, "Document not found",
                            NoDocument)
         /\ calls' = <<Db("findById", "ok")>>
         /\ dbFail = "none"
         /\ UNCHANGED <<docs, nextId, blobs, contents>>
  ELSE IF ~MayDelete(docs[id], user)
    THEN /\ last' = Respond("delete", id, "", NoPin, 403, "Access denied", docs[id])
         /\ calls' = <<Db("findById", "ok")>>
         /\ dbFail = "none"
         /\ UNCHANGED <<docs, nextId, blobs, contents>>
  ELSE
    LET document == docs[id]
        repoint == document.isLatestVersion /\ document.version > 1
    IN /\ outcome \in DeleteOutcomes(document.dropboxPath)
       /\ blobs' = DeleteFromDropbox(document.dropboxPath, outcome)
       /\ contents' = [p \in DOMAIN contents \cap blobs' |-> contents[p]]
       /\ UNCHANGED nextId
       /\ IF AbortsDelete(outcome)
            THEN /\ dbFail = "none"
                 /\ last' = Respond("delete", id, "", NoPin, 500,
                                    "Dropbox delete failed", document)
                 /\ calls' = <<Db("findById", "ok"),
                               Dropbox("filesDeleteV2", outcome)>>
                 /\ UNCHANGED docs
            ELSE
              \E previousVersion \in
                  IF repoint /\ dbFail # "findOne" /\ PreviousVersion(document) # {}
                    THEN PreviousVersion(document) ELSE {Null} :
                LET steps == DeleteSteps(repoint, previousVersion)
                    marked == IF previousVersion # Null /\ Done(steps, "save", dbFail)
                                THEN [docs EXCEPT
                                        ![previousVersion].isLatestVersion = TRUE]
                                ELSE docs
                    pruned == IF Done(steps, "updateMany", dbFail)
                                THEN PullHistory(marked, document.parentDocument, id)
                                ELSE marked
                IN /\ dbFail \in {"none"} \cup {steps[k] : k \in 1..Len(steps)}
                   /\ docs' = IF Done(steps, "findByIdAndDelete", dbFail)
                                THEN Remove(pruned, id) ELSE pruned
                   /\ calls' = <<Db("findById", "ok"),
                                 Dropbox("filesDeleteV2", outcome)>>
                               \o DbCalls(steps, dbFail)
                   /\ last' = IF dbFail = "none"
                                THEN Respond("delete", id, "", NoPin, 200,
                                             "Document deleted successfully",
                                             document)
                                ELSE Respond("delete", id, "", NoPin, 500,
                                             "database error", document)

Delete ==
  \E id \in (1..MaxUploads) \cup {BadId}, user \in Users,
     outcome \in {"deleted", "not_found", "failed"} :
    /\ DeleteRequest(id, user, outcome, "none")
    /\ UNCHANGED <<listing, inflight, resolved>>

(***************************************************************************)
(* GET /download/:id                                                       *)
(***************************************************************************)
\* the access check without the admin override on private documents
HasAccessOwnerOnly(document, user, pin) ==
  IF document.accessLevel = "public" THEN TRUE
  ELSE IF document.accessLevel = "private" THEN document.uploadedBy = user
  ELSE IF document.accessLevel = "protected"
    THEN IF pin # NoPin /\ document.accessPin # NoHash
           THEN BcryptCompare(pin, document.accessPin)
           ELSE FALSE
  ELSE FALSE

\* the access check with the owner and admin override on every level
HasAccessOwnerBypass(document, user, pin) ==
  IF document.accessLevel = "public" THEN TRUE
  ELSE IF Role(user) = "admin" \/ document.uploadedBy = user THEN TRUE
  ELSE IF document.accessLevel = "protected"
    THEN IF pin # NoPin /\ document.accessPin # NoHash
           THEN BcryptCompare(pin, document.accessPin)
           ELSE FALSE
  ELSE FALSE

\* the access check with the public level handled like the private one
HasAccessPublicAsPrivate(document, user, pin) ==
  IF document.accessLevel \in {"public", "private"}
    THEN Role(user) = "admin" \/ document.uploadedBy = user
  ELSE IF document.accessLevel = "protected"
    THEN IF pin # NoPin /\ document.accessPin # NoHash
           THEN BcryptCompare(pin, document.accessPin)
           ELSE FALSE
  ELSE FALSE

\* pin && document.accessPin: whether the access check of a protected
\* document calls bcrypt.compare
ComparesPin(document, pin) == pin # NoPin /\ document.accessPin # NoHash

\* the access check of the download route (the value of hasAccess)
HasAccess(document, user, pin) ==
  IF document.accessLevel = "public" THEN TRUE
  ELSE IF document.accessLevel = "private"
    THEN Role(user) = "admin" \/ document.uploadedBy = user
  ELSE IF document.accessLevel = "protected"
    THEN IF ComparesPin(document, pin)
           THEN BcryptCompare(pin, document.accessPin)
           ELSE FALSE
  ELSE FALSE

\* the response of the download route when hasAccess is false
Denied(id, user, pin, document) ==
  IF document.accessLevel = "protected"
    THEN [Respond("download", id, user, pin, 401, "PIN required", document)
            EXCEPT !.requiresPin = TRUE]
    ELSE Respond("download", id, user, pin, 403, "Access denied", document)

Granted(id, user, pin, status, message, document) ==
  [Respond("download", id, user, pin, status, message, document)
     EXCEPT !.hasAccess = TRUE]

\* the download route with the connection test ahead of the access check
DownloadCallsProbeFirst(hasAccess, connected, fetched, countSaved) ==
  <<Db("findById", "ok")>>
  \o (IF ~connected THEN <<Dropbox("usersGetCurrentAccount", "failed")>>
      ELSE <<Dropbox("usersGetCurrentAccount", "ok")>>
           \o (IF ~hasAccess THEN << >>
               ELSE <<Dropbox("downloadFromDropbox", fetched)>>
                    \o (IF fetched = "bytes"
                          THEN <<Db("save", IF countSaved THEN "ok" ELSE "failed")>>
                          ELSE << >>)))

\* the calls of the download route that finds its document, in order
DownloadCalls(hasAccess, connected, fetched, countSaved) ==
  <<Db("findById", "ok")>>
  \o (IF ~hasAccess THEN << >>
      ELSE IF ~connected THEN <<Dropbox("usersGetCurrentAccount", "failed")>>
      ELSE <<Dropbox("usersGetCurrentAccount", "ok"),
             Dropbox("downloadFromDropbox", fetched)>>
           \o (IF fetched = "bytes"
                 THEN <<Db("save", IF countSaved THEN "ok" ELSE "failed")>>
                 ELSE << >>))

\* the route without the check of the buffer length
EmptyBufferIgnored(fetched) == FALSE

\* !fileBuffer || fileBuffer.length === 0
EmptyBuffer(fetched) == fetched = "empty"

\* the route without the try/catch around the save of the count
AbortsDownloadOnCountFailure(countSaved) == ~countSaved

\* whether a save of the count that throws ends the route: the route
\* catches it, warns and sends the file
AbortsDownload(countSaved) == FALSE

DownloadRequest(id, user, pin, connected, fetched, countSaved) ==
  IF id = BadId
    THEN /\ last' = Respond("download", id, user, pin, 400, "Invalid document ID",
                            NoDocument)
         /\ calls' = << >>
         /\ UNCHANGED <<docs, nextId, blobs, contents>>
  ELSE IF id \notin Ids
    THEN /\ last' = Respond("download", id, user, pin, 404, "Document not found",
                            NoDocument)
         /\ calls' = <<Db("findById", "ok")>>
         /\ UNCHANGED <<docs, nextId, blobs, contents>>
  ELSE
    LET document == docs[id] IN
    /\ UNCHANGED <<nextId, blobs, contents>>
    /\ calls' = DownloadCalls(HasAccess(document, user, pin), connected, fetched,
                              countSaved)
    /\ IF ~HasAccess(document, user, pin)
         THEN /\ last' = Denied(id, user, pin, document)
              /\ UNCHANGED docs
       ELSE IF ~connected
         THEN /\ last' = Granted(id, user, pin, 500, "dropbox_connection", document)
              /\ UNCHANGED docs
       ELSE IF fetched = "failed"
         THEN /\ last' = Granted(id, user, pin, 500, "dropbox_download", document)
              /\ UNCHANGED docs
       ELSE IF EmptyBuffer(fetched)
         THEN /\ last' = Granted(id, user, pin, 500,
                                 "Empty file received from Dropbox", document)
              /\ UNCHANGED docs
       ELSE /\ document.downloadCount < MaxDownloads
            /\ last' = IF AbortsDownload(countSaved)
                         THEN Granted(id, user, pin, 500, "critical", document)
                         ELSE Granted(id, user, pin, 200, "file sent", document)
            /\ docs' = IF countSaved
                         THEN [docs EXCEPT ![id].downloadCount = @ + 1]
                         ELSE docs

\* downloads with Dropbox and the database answering
Download ==
  \E id \in (1..MaxAccessUploads) \cup {BadId}, user \in Users, pin \in Pins :
    /\ DownloadRequest(id, user, pin, TRUE, "bytes", TRUE)
    /\ UNCHANGED <<listing, inflight, resolved>>

\* the download route up to its await of the fetch: findById has read the
\* record, access is granted, the connection test passed; the handler holds
\* its copy of the record while other requests run
DownloadBegin(id, user, pin) ==
  /\ id \in Ids
  /\ HasAccess(docs[id], user, pin)
  /\ Len(inflight) < MaxInFlight
  /\ docs[id].downloadCount < MaxRaceDownloads
  /\ inflight' = Append(inflight, [id |-> id, user |-> user, pin |-> pin,
                                   document |-> docs[id]])
  /\ calls' = <<Db("findById", "ok"), Dropbox("usersGetCurrentAccount", "ok")>>
  /\ UNCHANGED <<docs, nextId, blobs, last, listing, contents, resolved>>

\* the rest of the download route: the fetch returned the bytes, and
\* document.downloadCount = (document.downloadCount || 0) + 1 with
\* document.save() writes the count of the handler's copy plus one
DownloadFinish(k) ==
  LET request == inflight[k]
      count == request.document.downloadCount + 1
  IN /\ docs' = [docs EXCEPT ![request.id].downloadCount = count]
     /\ inflight' = [j \in 1..(Len(inflight) - 1) |->
                       IF j < k THEN inflight[j] ELSE inflight[j + 1]]
     /\ last' = Granted(request.id, request.user, request.pin, 200, "file sent",
                        request.document)
     /\ calls' = DownloadCalls(TRUE, TRUE, "bytes", TRUE)
     /\ UNCHANGED <<nextId, blobs, listing, contents, resolved>>

BeginDownload ==
  \E id \in 1..MaxRaceUploads, user \in Users, pin \in Pins :
    DownloadBegin(id, user, pin)

FinishDownload == \E k \in 1..Len(inflight) : DownloadFinish(k)

UploadForRace ==
  \E user \in Users, name \in FileNames, mimetype \in PdfOnly,
     accessLevel \in AccessLevels, accessPin \in Pins :
    /\ UploadRequest(user, name, mimetype, accessLevel, accessPin, TRUE,
                     TRUE, MaxRaceUploads)
    /\ UNCHANGED <<listing, inflight, resolved>>

FetchOutcomes == {"bytes", "empty", "failed"}

\* downloads with every outcome of the connection test, of the fetch and of
\* the save of the count
DownloadWithFaults ==
  \E id \in (1..MaxFetchUploads) \cup {BadId}, user \in Users, pin \in Pins,
     connected \in BOOLEAN, fetched \in FetchOutcomes, countSaved \in BOOLEAN :
    /\ DownloadRequest(id, user, pin, connected, fetched, countSaved)
    /\ UNCHANGED <<listing, inflight, resolved>>

UploadForFetch ==
  \E user \in Users, name \in FileNames, mimetype \in PdfOnly,
     accessLevel \in AccessLevels, accessPin \in Pins :
    /\ UploadRequest(user, name, mimetype, accessLevel, accessPin, TRUE,
                     TRUE, MaxFetchUploads)
    /\ UNCHANGED <<listing, inflight, resolved>>

(***************************************************************************)
(* The upload route and the delete route await by await: a request is a    *)
(* record of inflight from its first read to its response, and the steps   *)
(* of several requests interleave.                                         *)
(***************************************************************************)
StepUsers == {"alice"}
StepFileNames == {"report"}

Advance(k, step) == [inflight EXCEPT ![k].step = step]

Without(k) ==
  [j \in 1..(Len(inflight) - 1) |-> IF j < k THEN inflight[j] ELSE inflight[j + 1]]

\* uploadToDropbox and Document.find(...).sort({version: -1}): version and
\* parentDocument are computed from existingDocs[0] here
UploadRead(user, name, max) ==
  /\ nextId <= max
  /\ \E top \in ExistingTop(user, name) :
       inflight' = Append(inflight,
         [op |-> "upload", step |-> IF top # Null THEN "updateMany" ELSE "save",
          user |-> user, id |-> nextId, name |-> name, top |-> top,
          version |-> ResolveVersion(top),
          parentDocument |-> ResolveParent(top), document |-> NoDocument])
  /\ blobs' = blobs \cup {nextId}
  /\ contents' = FilesUpload(contents, nextId, FileBytes)
  /\ nextId' = nextId + 1
  /\ UNCHANGED <<docs, last, calls, listing, resolved>>

\* Document.updateMany({baseFileName, uploadedBy}, {isLatestVersion: false})
UploadFlip(k) ==
  /\ inflight[k].op = "upload" /\ inflight[k].step = "updateMany"
  /\ docs' = MarkNotLatest(docs, inflight[k].user, inflight[k].name)
  /\ inflight' = Advance(k, "save")
  /\ UNCHANGED <<nextId, blobs, last, calls, listing, contents, resolved>>

\* the version found again when the record is saved
SavedVersionFresh(request) ==
  IF Chain(request.user, request.name) = {} THEN 1
  ELSE 1 + docs[CHOOSE i \in First(Chain(request.user, request.name)) : TRUE].version

\* the version of new Document({...}): the one computed after the find
SavedVersion(request) == request.version

\* new Document({...}) and document.save()
UploadSave(k) ==
  LET request == inflight[k]
      document == [NewDocument(request.user, request.name, "pdf", "public",
                               NoHash, SavedVersion(request),
                               request.parentDocument, request.id)
                     EXCEPT !.fileHash = CalculateFileHash(FileBytes)]
  IN /\ request.op = "upload" /\ request.step = "save"
     /\ docs' = [i \in Ids \cup {request.id} |->
                   IF i = request.id THEN document ELSE docs[i]]
     /\ inflight' = Advance(k, "push")
     /\ UNCHANGED <<nextId, blobs, last, calls, listing, contents, resolved>>

\* the $push of the new entry, and the response
UploadPush(k) ==
  LET request == inflight[k]
      entry == [version |-> SavedVersion(request), documentId |-> request.id,
                uploadedBy |-> request.user]
  IN /\ request.op = "upload" /\ request.step = "push"
     /\ docs' = PushHistory(docs, request.parentDocument, request.id, entry)
     /\ inflight' = Advance(k, "done")
     /\ last' = Respond("upload", request.id, "", NoPin, 201,
                        "Document uploaded successfully", NoDocument)
     /\ UNCHANGED <<nextId, blobs, calls, listing, contents, resolved>>

BeginUpload ==
  \E user \in StepUsers, name \in StepFileNames :
    UploadRead(user, name, MaxStepUploads)

StepUpload ==
  \E k \in 1..Len(inflight) : UploadFlip(k) \/ UploadSave(k) \/ UploadPush(k)

\* uploads whose steps interleave
NextUploadSteps == BeginUpload \/ StepUpload

SpecUploadSteps == Init /\ [][NextUploadSteps]_vars

\* Document.findById and the permission check: the handler keeps the
\* record it read
DeleteRead(id, user) ==
  /\ id \in Ids /\ MayDelete(docs[id], user)
  /\ Len(inflight) < MaxStepDeletes
  /\ inflight' = Append(inflight,
       [op |-> "delete", step |-> "filesDeleteV2", user |-> user, id |-> id,
        document |-> docs[id]])
  /\ UNCHANGED <<docs, nextId, blobs, last, calls, listing, contents, resolved>>

\* deleteFromDropbox, whose failure the route catches
DeleteBlob(k) ==
  LET request == inflight[k] IN
  /\ request.op = "delete" /\ request.step = "filesDeleteV2"
  /\ \E outcome \in DeleteOutcomes(request.document.dropboxPath) :
       /\ blobs' = DeleteFromDropbox(request.document.dropboxPath, outcome)
       /\ contents' = [p \in DOMAIN contents \cap blobs' |-> contents[p]]
  /\ inflight' = Advance(k, IF /\ request.document.isLatestVersion
                               /\ request.document.version > 1
                              THEN "findOne" ELSE "updateMany")
  /\ UNCHANGED <<docs, nextId, last, calls, listing, resolved>>

\* Document.findOne of the previous version and the save that marks it
\* latest: the condition was taken from the record read at the start
DeleteRepoint(k) ==
  LET request == inflight[k] IN
  /\ request.op = "delete" /\ request.step = "findOne"
  /\ \E previousVersion \in
         IF PreviousVersion(request.document) # {}
           THEN PreviousVersion(request.document) ELSE {Null} :
       docs' = IF previousVersion # Null
                 THEN [docs EXCEPT ![previousVersion].isLatestVersion = TRUE]
                 ELSE docs
  /\ inflight' = Advance(k, "updateMany")
  /\ UNCHANGED <<nextId, blobs, last, calls, listing, contents, resolved>>

\* the $pull of the entry of the record
DeletePull(k) ==
  LET request == inflight[k] IN
  /\ request.op = "delete" /\ request.step = "updateMany"
  /\ docs' = PullHistory(docs, request.document.parentDocument, request.id)
  /\ inflight' = Advance(k, "findByIdAndDelete")
  /\ UNCHANGED <<nextId, blobs, last, calls, listing, contents, resolved>>

\* Document.findByIdAndDelete and the response
DeleteRemove(k) ==
  LET request == inflight[k] IN
  /\ request.op = "delete" /\ request.step = "findByIdAndDelete"
  /\ docs' = Remove(docs, request.id)
  /\ inflight' = Without(k)
  /\ last' = Respond("delete", request.id, "", NoPin, 200,
                     "Document deleted successfully", request.document)
  /\ UNCHANGED <<nextId, blobs, calls, listing, contents, resolved>>

BeginDelete ==
  \E id \in 1..MaxStepUploads, user \in StepUsers : DeleteRead(id, user)

StepDelete ==
  \E k \in 1..Len(inflight) :
    DeleteBlob(k) \/ DeleteRepoint(k) \/ DeletePull(k) \/ DeleteRemove(k)

\* an upload that runs from its first await to its response with no other
\* request in between
UploadWhole ==
  \E user \in StepUsers, name \in StepFileNames :
    /\ UploadRequest(user, name, "application/pdf", "public", NoPin, TRUE, TRUE,
                     MaxStepUploads)
    /\ UNCHANGED <<listing, inflight, resolved>>

\* deletes whose steps interleave with uploads
NextDeleteSteps == UploadWhole \/ BeginDelete \/ StepDelete

SpecDeleteSteps == Init /\ [][NextDeleteSteps]_vars

(***************************************************************************)
(* downloadFromDropbox                                                     *)
(***************************************************************************)
\* errors of the Dropbox API with a status: 409, 401, 429
TerminalFailures == {"not_found", "auth", "rate_limit"}

\* what filesDownload can do: return response.result.fileBinary of a type,
\* throw "res.buffer is not a function", or throw an error with a status
FileBinaryTypes == {"Buffer", "Uint8Array", "ArrayBuffer", "Blob"}
DirectOutcomes == FileBinaryTypes \cup {"buffer_error"} \cup TerminalFailures

\* filesGetTemporaryLink and sharingCreateSharedLinkWithSettings: a result
\* with the link, a result without it, or an error
LinkOutcomes == {"link", "no_link"} \cup TerminalFailures
ShareOutcomes == {"url", "no_url"} \cup TerminalFailures

\* node-fetch on a link: ok, a response that is not ok, or a thrown error
GetOutcomes == {"ok", "http_error", "network"}
RevokeOutcomes == {"ok", "failed"}
NotRun == "not_run"

\* Buffer.from read as a conversion of text
BufferFromText(bytes) ==
  [k \in DOMAIN bytes |-> IF bytes[k] < 128 THEN bytes[k] ELSE 63]

\* Buffer.from(Uint8Array | ArrayBuffer): a Buffer of the same bytes
BufferFrom(bytes) == [k \in DOMAIN bytes |-> bytes[k]]

\* Buffer.isBuffer || instanceof Uint8Array || instanceof ArrayBuffer
Usable(type) == type \in {"Buffer", "Uint8Array", "ArrayBuffer"}

\* Method 2: filesGetTemporaryLink, then fetch of the link
TemporaryLink(env) ==
  IF env.link = "link"
    THEN [calls |-> <<Dropbox("filesGetTemporaryLink", "link"),
                      Dropbox("fetch link", env.linkGet)>>,
          bytes |-> env.linkGet = "ok"]
    ELSE [calls |-> <<Dropbox("filesGetTemporaryLink", env.link)>>,
          bytes |-> FALSE]

\* Method 3: sharingCreateSharedLinkWithSettings, fetch of the link, and
\* sharingRevokeSharedLink after a fetch that is ok
SharedLink(env) ==
  IF env.share = "url"
    THEN [calls |-> <<Dropbox("sharingCreateSharedLinkWithSettings", "url"),
                      Dropbox("fetch sharedUrl", env.shareGet)>>
                    \o (IF env.shareGet = "ok"
                          THEN <<Dropbox("sharingRevokeSharedLink", env.revoke)>>
                          ELSE << >>),
          bytes |-> env.shareGet = "ok"]
    ELSE [calls |-> <<Dropbox("sharingCreateSharedLinkWithSettings", env.share)>>,
          bytes |-> FALSE]

\* the shared link tried ahead of the temporary link
FallbacksSharedLinkFirst(env) ==
  IF SharedLink(env).bytes THEN SharedLink(env)
  ELSE [calls |-> SharedLink(env).calls \o TemporaryLink(env).calls,
        bytes |-> TemporaryLink(env).bytes]

\* the methods after filesDownload threw "res.buffer is not a function"
Fallbacks(env) ==
  IF TemporaryLink(env).bytes THEN TemporaryLink(env)
  ELSE [calls |-> TemporaryLink(env).calls \o SharedLink(env).calls,
        bytes |-> SharedLink(env).bytes]

\* the connection test not looked at
ProbeIgnored(env) == FALSE

\* usersGetCurrentAccount threw
ProbeFailed(env) == ~env.probe

\* downloadFromDropbox(dropboxPath) in the environment env: its calls to
\* the SDK in order, how it ends, and the Buffer it returns
DownloadFromDropbox(file, env) ==
  LET probe == Dropbox("usersGetCurrentAccount", IF env.probe THEN "ok" ELSE "failed")
      direct == Dropbox("filesDownload", env.direct)
  IN IF ProbeFailed(env)
       THEN [calls |-> <<probe>>, result |-> "Dropbox connection failed",
             body |-> << >>]
     ELSE IF env.direct = "Buffer"
       THEN [calls |-> <<probe, direct>>, result |-> "bytes", body |-> file]
     ELSE IF Usable(env.direct)
       THEN [calls |-> <<probe, direct>>, result |-> "bytes",
             body |-> BufferFrom(file)]
     ELSE IF env.direct \in FileBinaryTypes
       THEN [calls |-> <<probe, direct>>, result |-> "All download methods failed",
             body |-> << >>]
     ELSE IF env.direct \in TerminalFailures
       THEN [calls |-> <<probe, direct>>, result |-> env.direct, body |-> << >>]
     ELSE IF Fallbacks(env).bytes
       THEN [calls |-> <<probe, direct>> \o Fallbacks(env).calls,
             result |-> "bytes", body |-> BufferFrom(file)]
     ELSE [calls |-> <<probe, direct>> \o Fallbacks(env).calls,
           result |-> "res.buffer is not a function", body |-> << >>]

Environment(probe, direct, link, linkGet, share, shareGet, revoke) ==
  [probe |-> probe, direct |-> direct, link |-> link, linkGet |-> linkGet,
   share |-> share, shareGet |-> shareGet, revoke |-> revoke]

\* the outcomes of Method 2 and of Method 3: NotRun for a call that the
\* outcome of the call before it leaves out
LinkRuns ==
  {<<link, NotRun>> : link \in LinkOutcomes \ {"link"}}
    \cup {<<"link", linkGet>> : linkGet \in GetOutcomes}

ShareRuns ==
  {<<share, NotRun, NotRun>> : share \in ShareOutcomes \ {"url"}}
    \cup {<<"url", shareGet, NotRun>> : shareGet \in GetOutcomes \ {"ok"}}
    \cup {<<"url", "ok", revoke>> : revoke \in RevokeOutcomes}

\* the connection test of downloadFromDropbox fails
NoConnection == Environment(FALSE, NotRun, NotRun, NotRun, NotRun, NotRun, NotRun)

\* the environments of one run: an outcome for every call the run can reach
Environments ==
  {NoConnection}
    \cup {Environment(TRUE, direct, NotRun, NotRun, NotRun, NotRun, NotRun) :
            direct \in DirectOutcomes \ {"buffer_error"}}
    \cup {Environment(TRUE, "buffer_error", "link", "ok", NotRun, NotRun, NotRun)}
    \cup {Environment(TRUE, "buffer_error", l[1], l[2], s[1], s[2], s[3]) :
            l \in LinkRuns \ {<<"link", "ok">>}, s \in ShareRuns}

\* fileBuffer of the route: what the run gave it
Fetched(run) ==
  IF run.result # "bytes" THEN "failed"
  ELSE IF run.body = << >> THEN "empty" ELSE "bytes"

\* the contents of the uploaded files of the resolver runs
Payloads == {<< >>, <<7>>, <<200, 7>>}
ResolveAccessLevels == {"public", "private"}
ResolveUploaders == {"root"}

UploadPayload ==
  \E user \in ResolveUploaders, buffer \in Payloads,
     accessLevel \in ResolveAccessLevels :
    /\ UploadFile(user, "report", "application/pdf", buffer, accessLevel, NoPin,
                  TRUE, TRUE, TRUE, MaxResolveUploads)
    /\ UNCHANGED <<listing, inflight, resolved>>

\* the download route with downloadFromDropbox run in an environment; the
\* run is kept in resolved
DownloadResolved ==
  \E id \in 1..MaxResolveUploads, user \in Users, connected \in BOOLEAN,
     env \in Environments :
    LET called == id \in Ids /\ HasAccess(docs[id], user, NoPin) /\ connected
        run == IF called
                 THEN DownloadFromDropbox(contents[docs[id].dropboxPath], env)
                 ELSE NotResolved
    IN /\ called \/ env = NoConnection
       /\ DownloadRequest(id, user, NoPin, connected, Fetched(run), TRUE)
       /\ resolved' = run
       /\ UNCHANGED <<listing, inflight>>

NextResolve == UploadPayload \/ DownloadResolved

SpecResolve == Init /\ [][NextResolve]_vars

(***************************************************************************)
(* GET /                                                                   *)
(***************************************************************************)
SearchTerms == {"", "REPORT", "memo"}
CategoryFilters == {"", "all", "image"}
ListPins == {<<1, 2, 3, 4>>}
\* the files of the listing runs: a name and the type of its content
ListFiles == {[name |-> "report", mimetype |-> "application/pdf"],
              [name |-> "notes", mimetype |-> "image/png"]}
Pages == {1, 2}
Limits == {1, 10}

\* $options: "i"
LowerCase(term) == IF term = "REPORT" THEN "report" ELSE term

\* the $or of the search: the terms of the model are whole base names, and
\* originalName holds one exactly when baseFileName is it; uploads carry
\* no description and no tags
SearchMatches(document, search) == LowerCase(search) = document.baseFileName

\* the query in which the $or of the search takes the place of the $or of
\* the access control
ListQuerySearchReplacesAccess(document, user, category, search, showAllVersions) ==
  /\ (search = "" /\ Role(user) # "admin")
       => \/ document.uploadedBy = user
          \/ document.accessLevel = "public"
          \/ document.accessLevel = "protected"
  /\ showAllVersions # "true" => document.isLatestVersion
  /\ (category # "" /\ category # "all") => document.category = category
  /\ search # "" => SearchMatches(document, search)

\* the query object of the listing route, as a predicate on a record
ListQuery(document, user, category, search, showAllVersions) ==
  /\ Role(user) # "admin"
       => \/ document.uploadedBy = user
          \/ document.accessLevel = "public"
          \/ document.accessLevel = "protected"
  /\ showAllVersions # "true" => document.isLatestVersion
  /\ (category # "" /\ category # "all") => document.category = category
  /\ search # "" => SearchMatches(document, search)

\* .sort({createdAt: -1}): ids are given in order of creation
RECURSIVE SortByCreatedAtDesc(_)
SortByCreatedAtDesc(found) ==
  IF found = {} THEN << >>
  ELSE LET newest == CHOOSE i \in found : \A j \in found : j <= i
       IN <<newest>> \o SortByCreatedAtDesc(found \ {newest})

\* .limit(limit * 1).skip((page - 1) * limit)
PageOf(sorted, page, limit) ==
  LET skip == (page - 1) * limit
      to == IF skip + limit < Len(sorted) THEN skip + limit ELSE Len(sorted)
  IN SubSeq(sorted, skip + 1, to)

ListRequest(user, category, search, page, limit, showAllVersions) ==
  LET found == {i \in Ids : ListQuery(docs[i], user, category, search,
                                      showAllVersions)}
  IN /\ listing' = [documents |-> PageOf(SortByCreatedAtDesc(found), page, limit),
                    total |-> Cardinality(found)]
     /\ last' = Respond("list", Null, user, NoPin, 200, "", NoDocument)
     /\ calls' = <<Db("find", "ok"), Db("countDocuments", "ok")>>
     /\ UNCHANGED <<docs, nextId, blobs, contents>>

List ==
  \E user \in Users, category \in CategoryFilters, search \in SearchTerms,
     page \in Pages, limit \in Limits, showAllVersions \in {"false", "true"} :
    /\ ListRequest(user, category, search, page, limit, showAllVersions)
    /\ UNCHANGED <<inflight, resolved>>

(***************************************************************************)
(* GET /:id/versions                                                       *)
(***************************************************************************)
\* the root taken as the document's own id, whatever its parentDocument
VersionsRootOwnId(id) == id

\* document.parentDocument || document._id
VersionsRoot(id) ==
  IF docs[id].parentDocument # Null THEN docs[id].parentDocument ELSE id

\* Document.find({$or: [{_id: root}, {parentDocument: root}]})
VersionsQuery(root) == {i \in Ids : i = root \/ docs[i].parentDocument = root}

\* .sort({version: -1}); records of equal version in the order of their ids
RECURSIVE SortByVersionDesc(_)
SortByVersionDesc(found) ==
  IF found = {} THEN << >>
  ELSE LET top == CHOOSE i \in found :
                    \A j \in found :
                      \/ docs[j].version < docs[i].version
                      \/ docs[j].version = docs[i].version /\ j <= i
       IN <<top>> \o SortByVersionDesc(found \ {top})

VersionsRequest(id, user) ==
  IF id = BadId
    THEN /\ last' = Respond("versions", id, user, NoPin, 500,
                            "Cast to ObjectId failed", NoDocument)
         /\ calls' = <<Db("findById", "failed")>>
         /\ UNCHANGED <<docs, nextId, blobs, contents, listing>>
  ELSE IF id \notin Ids
    THEN /\ last' = Respond("versions", id, user, NoPin, 404,
                            "Document not found", NoDocument)
         /\ calls' = <<Db("findById", "ok")>>
         /\ UNCHANGED <<docs, nextId, blobs, contents, listing>>
  ELSE IF Role(user) # "admin" /\ docs[id].uploadedBy # user
    THEN /\ last' = Respond("versions", id, user, NoPin, 403, "Access denied",
                            docs[id])
         /\ calls' = <<Db("findById", "ok")>>
         /\ UNCHANGED <<docs, nextId, blobs, contents, listing>>
  ELSE
    LET versions == SortByVersionDesc(VersionsQuery(VersionsRoot(id)))
    IN /\ listing' = [documents |-> versions, total |-> Len(versions)]
       /\ last' = Respond("versions", id, user, NoPin, 200, "", docs[id])
       /\ calls' = <<Db("findById", "ok"), Db("find", "ok")>>
       /\ UNCHANGED <<docs, nextId, blobs, contents>>

VersionsUsers == {"alice", "root"}

VersionsFileNames == {"report", "notes"}

UploadForVersions ==
  \E user \in VersionsUsers, name \in VersionsFileNames :
    /\ UploadRequest(user, name, "application/pdf", "private", NoPin, TRUE, TRUE,
                     MaxVersionsUploads)
    /\ UNCHANGED <<listing, inflight, resolved>>

DeleteForVersions ==
  \E id \in 1..MaxVersionsUploads, user \in VersionsUsers :
    /\ DeleteRequest(id, user, "deleted", "none")
    /\ UNCHANGED <<listing, inflight, resolved>>

GetVersions ==
  \E id \in (1..MaxVersionsUploads) \cup {BadId}, user \in VersionsUsers :
    /\ VersionsRequest(id, user)
    /\ UNCHANGED <<inflight, resolved>>

NextVersions == UploadForVersions \/ DeleteForVersions \/ GetVersions

SpecVersions == Init /\ [][NextVersions]_vars

UploadForList ==
  \E user \in Users, file \in ListFiles,
     accessLevel \in AccessLevels, accessPin \in ListPins :
    /\ UploadRequest(user, file.name, file.mimetype, accessLevel, accessPin,
                     TRUE, TRUE, MaxListUploads)
    /\ UNCHANGED <<listing, inflight, resolved>>

UploadForAccess ==
  \E user \in Users, name \in FileNames, mimetype \in PdfOnly,
     accessLevel \in AccessLevelInputs,
     accessPin \in Pins, dropboxOk \in BOOLEAN :
    /\ UploadRequest(user, name, mimetype, accessLevel, accessPin, dropboxOk,
                     TRUE, MaxAccessUploads)
    /\ UNCHANGED <<listing, inflight, resolved>>

(***************************************************************************)
(* Specifications.  Spec: uploads and deletes, each handler run from its   *)
(* first to its last step before the next one starts.  SpecUploads: the    *)
(* uploads alone.  SpecAccess: uploads and downloads.  SpecShort: Spec on  *)
(* a smaller store.  SpecFaults: handlers whose metadata calls may fail.   *)
(***************************************************************************)
Next == Upload \/ Delete

Spec == Init /\ [][Next]_vars

NextUploads == Upload

SpecUploads == Init /\ [][NextUploads]_vars

NextAccess == UploadForAccess \/ Download

SpecAccess == Init /\ [][NextAccess]_vars

\* uploads whose document.save() may fail its validation, and deletes in
\* which one call to the metadata store may fail
\* the records a documents collection can hold when the server starts: the
\* schema asks for accessPin on a protected record when Mongoose saves it,
\* the collection itself does not
StoredRecords ==
  {[NewDocument(user, "report", "pdf", accessLevel, accessPin, 1, Null, 1)
      EXCEPT !.fileHash = CalculateFileHash(FileBytes)] :
     user \in Users, accessLevel \in AccessLevels,
     accessPin \in {NoHash, BcryptHash(<<1, 2, 3, 4>>)}}

InitStored ==
  /\ docs \in {<<document>> : document \in StoredRecords}
  /\ nextId = 2
  /\ blobs = {1}
  /\ contents = <<FileBytes>>
  /\ last = NoRequest
  /\ calls = << >>
  /\ listing = NoListing
  /\ inflight = << >>
  /\ resolved = NotResolved

\* downloads from a collection that holds one record
NextStored == Download

SpecStored == InitStored /\ [][NextStored]_vars

NextFetch == UploadForFetch \/ DownloadWithFaults

SpecFetch == Init /\ [][NextFetch]_vars

\* downloads whose handlers interleave at their awaits
NextRace == UploadForRace \/ BeginDownload \/ FinishDownload

SpecRace == Init /\ [][NextRace]_vars

NextList == UploadForList \/ List

SpecList == Init /\ [][NextList]_vars

\* uploads and deletes on a store of at most MaxAccessUploads records
DeleteForAccess ==
  \E id \in (1..MaxAccessUploads) \cup {BadId}, user \in Users,
     outcome \in {"deleted", "not_found", "failed"} :
    /\ DeleteRequest(id, user, outcome, "none")
    /\ UNCHANGED <<listing, inflight, resolved>>

NextShort == UploadForAccess \/ DeleteForAccess

SpecShort == Init /\ [][NextShort]_vars

FaultFileNames == {"report"}

FaultAccessLevels == {"private", "protected"}

DbFailures ==
  {"none", "findById", "findOne", "save", "updateMany", "findByIdAndDelete"}

UploadWithFaults ==
  \E user \in Users, name \in FaultFileNames, mimetype \in PdfOnly,
     accessLevel \in FaultAccessLevels,
     accessPin \in Pins, dropboxOk \in BOOLEAN, saveOk \in BOOLEAN :
    /\ UploadRequest(user, name, mimetype, accessLevel, accessPin, dropboxOk, saveOk,
       MaxFaultUploads)
    /\ UNCHANGED <<listing, inflight, resolved>>

DeleteWithFaults ==
  \E id \in (1..MaxFaultUploads) \cup {BadId}, user \in Users,
     outcome \in {"deleted", "not_found", "failed"}, dbFail \in DbFailures :
    /\ DeleteRequest(id, user, outcome, dbFail)
    /\ UNCHANGED <<listing, inflight, resolved>>

\* uploads whose $push of the versionHistory entry can throw
UploadFanOut ==
  \E user \in Users, name \in FaultFileNames, pushOk \in BOOLEAN :
    /\ UploadFile(user, name, "application/pdf", FileBytes, "private", NoPin,
                  TRUE, TRUE, pushOk, MaxFanOutUploads)
    /\ UNCHANGED <<listing, inflight, resolved>>

\* deletes whose $pull of the versionHistory entry can throw
DeleteFanOut ==
  \E id \in 1..MaxFanOutUploads, user \in Users,
     outcome \in {"deleted", "failed"}, dbFail \in {"none", "updateMany"} :
    /\ DeleteRequest(id, user, outcome, dbFail)
    /\ UNCHANGED <<listing, inflight, resolved>>

NextFanOut == UploadFanOut \/ DeleteFanOut

SpecFanOut == Init /\ [][NextFanOut]_vars

NextFaults == UploadWithFaults \/ DeleteWithFaults

SpecFaults == Init /\ [][NextFaults]_vars

(***************************************************************************)
(* Properties of the version chains.                                       *)
(***************************************************************************)
SameChain(i, j) ==
  /\ docs[i].uploadedBy = docs[j].uploadedBy
  /\ docs[i].baseFileName = docs[j].baseFileName

Latest(chain) == {i \in chain : docs[i].isLatestVersion}

Versions(chain) == {docs[i].version : i \in chain}

Highest(chain) == First(chain)

DeleteDone == last.op = "delete" /\ last.status = 200

\* the records left in the chain of the record the last delete removed
ChainLeft == Chain(last.document.uploadedBy, last.document.baseFileName)

\* C1: in every state reached by uploads and deletes that run one after the
\* other, no chain (same uploadedBy, same baseFileName) has two records
\* with isLatestVersion = true.
C1_AtMostOneLatest ==
  \A i, j \in Ids :
    (SameChain(i, j) /\ docs[i].isLatestVersion /\ docs[j].isLatestVersion) => i = j

\* a delete went through in a chain that keeps a latest and a non-latest record
C1_Witness ==
  /\ DeleteDone
  /\ \E i, j \in ChainLeft : docs[i].isLatestVersion /\ ~docs[j].isLatestVersion

\* C2: in every state reached by uploads and deletes that run one after the
\* other, every chain that has a record has exactly one record with
\* isLatestVersion = true.
C2_ExactlyOneLatest ==
  \A i \in Ids : Cardinality(Latest(ChainOf(i))) = 1

\* C3: with uploads only, the N records of a chain have the versions 1..N in
\* upload order, version 1 has parentDocument = null, the versions 2..N
\* have parentDocument = the id of version 1, and version N alone is latest.
C3_UploadsBuildChain ==
  \A user \in Users, name \in FileNames :
    LET chain == Chain(user, name)
        N == Cardinality(chain)
    IN /\ Versions(chain) = 1..N
       /\ \A i, j \in chain : i < j => docs[i].version < docs[j].version
       /\ \A i \in chain : docs[i].version = 1 => docs[i].parentDocument = Null
       /\ \A i, j \in chain :
            (docs[i].version = 1 /\ docs[j].version > 1)
              => docs[j].parentDocument = i
       /\ \A i \in chain : docs[i].isLatestVersion <=> docs[i].version = N

\* three uploads went into one chain
C3_Witness ==
  /\ last.op = "upload" /\ last.status = 201
  /\ last.document.version = 3
  /\ Cardinality(ChainOf(last.id)) = 3

\* C4: after a delete of the latest record of a chain, of version N > 1,
\* the record of the chain with version N-1 has isLatestVersion = true.
C4_DeleteLatestMarksPrevious ==
  (DeleteDone /\ last.document.isLatestVersion /\ last.document.version > 1)
    => \A i \in ChainLeft :
         docs[i].version = last.document.version - 1 => docs[i].isLatestVersion

\* the latest record, version 2 or more, was deleted and version N-1 exists
C4_Witness ==
  /\ DeleteDone /\ last.document.isLatestVersion /\ last.document.version > 1
  /\ \E i \in ChainLeft :
       docs[i].version = last.document.version - 1 /\ docs[i].isLatestVersion

\* C5: after a delete of the latest record of a chain that leaves records in
\* the chain, the remaining record with the highest version has
\* isLatestVersion = true, whatever was deleted before.
C5_DeleteLatestMarksHighest ==
  (DeleteDone /\ last.document.isLatestVersion /\ ChainLeft # {})
    => \A i \in Highest(ChainLeft) : docs[i].isLatestVersion

\* C6: in every state reached by uploads and deletes that run one after the
\* other, the versions of a chain with k records are exactly 1..k.
C6_VersionsContiguous ==
  \A i \in Ids : Versions(ChainOf(i)) = 1..Cardinality(ChainOf(i))

\* C6 (amended): the versions of the records of a chain are positive,
\* pairwise distinct and ascending in upload order; a deleted record leaves
\* a gap in them.
C6_VersionsAscending ==
  \A i, j \in Ids :
    /\ docs[i].version >= 1
    /\ (SameChain(i, j) /\ i < j) => docs[i].version < docs[j].version

\* a chain whose versions have a gap, with an upload on top of the gap
C6_Witness ==
  \E i, j \in Ids :
    /\ SameChain(i, j) /\ i < j
    /\ docs[j].version > docs[i].version + 1
    /\ last.op = "upload" /\ last.status = 201 /\ last.id = j

\* C7: in every state reached by uploads and deletes that run one after the
\* other, the parentDocument of a record with version > 1 is the id of a
\* stored record of the same chain that has version 1.
C7_ParentIsChainRoot ==
  \A i \in Ids :
    docs[i].version > 1
      => /\ docs[i].parentDocument \in Ids
         /\ SameChain(i, docs[i].parentDocument)
         /\ docs[docs[i].parentDocument].version = 1

(***************************************************************************)
(* Properties of the access check of the download route.                   *)
(***************************************************************************)
DownloadOf(accessLevel) ==
  last.op = "download" /\ last.document.accessLevel = accessLevel

\* the download got past the access check: its answer is not a denial
DownloadGranted == last.status \notin {401, 403}

\* what the caller of the download route receives
Response(r) == <<r.status, r.message, r.requiresPin>>

\* C8: a download of a private document is granted exactly when the caller
\* is an admin or the uploader of the document, whatever PIN comes with it.
C8_PrivateOwnerOrAdmin ==
  DownloadOf("private")
    => (DownloadGranted <=>
          (Role(last.user) = "admin" \/ last.user = last.document.uploadedBy))

\* an admin who is not the uploader got a private document, sending a PIN
C8_Witness ==
  /\ DownloadOf("private") /\ last.status = 200
  /\ Role(last.user) = "admin" /\ last.user # last.document.uploadedBy
  /\ last.pin # NoPin

\* C9: a download of a protected document is granted exactly when the PIN
\* of the request matches the stored hash, for the uploader, an admin and
\* any other caller alike.
C9_ProtectedPinOnly ==
  DownloadOf("protected")
    => (DownloadGranted <=> BcryptCompare(last.pin, last.document.accessPin))

\* a caller who is neither uploader nor admin got a protected document with
\* the right PIN
C9_Witness ==
  /\ DownloadOf("protected") /\ last.status = 200
  /\ Role(last.user) # "admin" /\ last.user # last.document.uploadedBy
  /\ last.pin # NoPin

\* C10: a denied download of a protected document says "PIN required" when
\* no PIN was sent and "Invalid PIN" when a wrong one was sent, and the
\* answer to a wrong PIN differs from the answer to a missing PIN.
C10_PinDenialsDistinct ==
  (DownloadOf("protected") /\ ~DownloadGranted)
    => /\ last.pin = NoPin => last.message = "PIN required"
       /\ last.pin # NoPin =>
            /\ last.message = "Invalid PIN"
            /\ Response(last) #
                 Response(Denied(last.id, last.user, NoPin, last.document))

\* C11: a download of a public document is granted to every caller, admin
\* or not, uploader or not, with any PIN and with none.
C11_PublicAlwaysGranted ==
  DownloadOf("public") => DownloadGranted

\* a caller who is neither uploader nor admin got a public document
\* without a PIN
C11_Witness ==
  /\ DownloadOf("public") /\ last.status = 200
  /\ Role(last.user) # "admin" /\ last.user # last.document.uploadedBy
  /\ last.pin = NoPin

(***************************************************************************)
(* Properties of the handlers' failure paths.                              *)
(***************************************************************************)
DropboxCalls(trace) == {k \in 1..Len(trace) : trace[k].to = "dropbox"}

BlobDeleteOutcomes == {"deleted", "not_found", "failed"}

\* C12: a delete request of a caller who is neither admin nor uploader of
\* the record is answered 403, for a record of any access level, makes no
\* call to the blob store and leaves the records and the blobs as they are.
C12_DeniedDeleteNoEffect ==
  [][\A id \in Ids, user \in Users, outcome \in BlobDeleteOutcomes :
       (/\ Role(user) # "admin" /\ docs[id].uploadedBy # user
        /\ DeleteRequest(id, user, outcome, "none"))
         => /\ last'.status = 403
            /\ DropboxCalls(calls') = {}
            /\ docs' = docs /\ blobs' = blobs]_vars

\* a delete of a public record was denied while the record has history
C12_Witness ==
  /\ last.op = "delete" /\ last.status = 403
  /\ last.document.accessLevel = "public"
  /\ last.id \in Ids /\ docs[last.id] = last.document
  /\ last.document.versionHistory # << >>

\* the answers of the blob store to the last handler
BlobResults(api) ==
  {calls[k].result : k \in {j \in DropboxCalls(calls) : calls[j].api = api}}

DbFailed == \E k \in 1..Len(calls) : calls[k].to = "db" /\ calls[k].result = "failed"

\* C13: an authorized delete whose blob delete is answered not-found, or
\* fails in another way, still removes the record and answers 200 (when
\* the metadata store does its part).
C13_BlobFailureDoesNotStopDelete ==
  (/\ last.op = "delete"
   /\ BlobResults("filesDeleteV2") \cap {"not_found", "failed"} # {}
   /\ ~DbFailed)
    => last.status = 200 /\ last.id \notin Ids

\* the blob store answered not-found and the record was removed
C13_Witness ==
  /\ last.op = "delete" /\ last.status = 200 /\ last.id \notin Ids
  /\ BlobResults("filesDeleteV2") = {"not_found"}

\* C14: an upload request with an access level outside public, private and
\* protected, or with the protected level and no PIN or a PIN of fewer than
\* 4 characters, is answered 400, makes no call to the blob store or the
\* metadata store, and leaves records and blobs as they are.
C14_InvalidUploadRejected ==
  [][\A user \in Users, name \in FileNames, mimetype \in PdfOnly,
        accessLevel \in AccessLevelInputs,
        accessPin \in Pins, dropboxOk \in BOOLEAN :
       (/\ \/ accessLevel \notin {"public", "private", "protected"}
           \/ accessLevel = "protected" /\ Len(accessPin) < 4
        /\ UploadRequest(user, name, mimetype, accessLevel, accessPin, dropboxOk, TRUE,
                         MaxAccessUploads))
         => /\ last'.status = 400
            /\ calls' = << >>
            /\ docs' = docs /\ blobs' = blobs /\ nextId' = nextId]_vars

\* an upload was rejected for its PIN while the store holds a record
C14_Witness ==
  /\ last.op = "upload" /\ last.status = 400
  /\ last.message = "Protected files require a PIN"
  /\ calls = << >> /\ Ids # {}

\* C15: the upload route calls the blob store before it reads or writes
\* the metadata store; when the blob write fails the upload is answered 500,
\* the metadata store is not called and no record is added or changed.
C15_BlobWriteFirst ==
  [][last'.op = "upload" =>
       /\ \A k \in 1..Len(calls') :
            calls'[k].to = "db"
              => \E j \in 1..(k - 1) : calls'[j] = Dropbox("filesUpload", "ok")
       /\ Dropbox("filesUpload", "failed") \in {calls'[k] : k \in 1..Len(calls')}
            => /\ last'.status = 500
               /\ docs' = docs /\ nextId' = nextId]_vars

\* the blob write of a new version failed and the chain kept its latest record
C15_Witness ==
  /\ last.op = "upload" /\ last.status = 500
  /\ calls = <<Dropbox("filesUpload", "failed")>>
  /\ \E i \in Ids : docs[i].isLatestVersion

CallsMade == {calls[k] : k \in 1..Len(calls)}

\* C16: a download answered not-found (or invalid id) or denied makes no
\* call to the blob store, neither the connection test nor the retrieval,
\* and leaves every record, its downloadCount included, as it is.
C16_DeniedDownloadNoBlobCall ==
  [][(last'.op = "download" /\ last'.status \in {400, 404, 401, 403})
       => /\ DropboxCalls(calls') = {}
          /\ docs' = docs /\ blobs' = blobs]_vars

\* a download of a record that was downloaded before was denied
C16_Witness ==
  /\ last.op = "download" /\ last.status \in {401, 403}
  /\ last.id \in Ids /\ docs[last.id].downloadCount > 0
  /\ calls = <<Db("findById", "ok")>>

\* C17: a download whose retrieval returns a buffer of zero bytes is
\* answered with an error that is not the not-found answer, sends no file
\* and leaves downloadCount as it is.
C17_EmptyPayloadIsError ==
  [][(last'.op = "download" /\ Dropbox("downloadFromDropbox", "empty") \in
        {calls'[k] : k \in 1..Len(calls')})
       => /\ last'.status = 500
          /\ Response(last') # <<404, "Document not found", FALSE>>
          /\ last'.message # "file sent"
          /\ docs' = docs]_vars

\* the retrieval returned zero bytes for a granted download
C17_Witness ==
  /\ last.op = "download" /\ last.status = 500
  /\ last.message = "Empty file received from Dropbox"
  /\ Dropbox("downloadFromDropbox", "empty") \in CallsMade

(***************************************************************************)
(* Properties of the listing and of the stored PIN.                        *)
(***************************************************************************)
Listed == {listing.documents[k] : k \in 1..Len(listing.documents)}

\* C18: the listing a caller who is not admin gets holds only records the
\* caller uploaded and records of level public or protected, with any
\* category filter, search term, page and showAllVersions.
C18_ListingHidesPrivate ==
  (last.op = "list" /\ Role(last.user) # "admin")
    => \A i \in Listed :
         \/ docs[i].uploadedBy = last.user
         \/ docs[i].accessLevel \in {"public", "protected"}

\* a caller who is not admin got a listing while the store holds a latest
\* private record of another user
C18_Witness ==
  /\ last.op = "list" /\ Role(last.user) # "admin"
  /\ Listed # {}
  /\ \E i \in Ids \ Listed :
       /\ docs[i].accessLevel = "private" /\ docs[i].uploadedBy # last.user
       /\ docs[i].isLatestVersion

\* C19: in every reachable state a record holds a PIN hash exactly when its
\* accessLevel is protected.
C19_PinHashIffProtected ==
  \A i \in Ids : (docs[i].accessPin # NoHash) <=> (docs[i].accessLevel = "protected")

\* the store holds a protected record with its hash and a record of another
\* level without one
C19_Witness ==
  /\ \E i \in Ids : /\ docs[i].accessLevel = "protected"
                    /\ docs[i].accessPin = BcryptHash(<<1, 2, 3, 4>>)
  /\ \E i \in Ids : /\ docs[i].accessLevel # "protected"
                    /\ docs[i].accessPin = NoHash

(***************************************************************************)
(* Interleaved downloads.                                                  *)
(***************************************************************************)
\* C20: no step lowers the downloadCount of a record, downloads of one
\* document interleaving their read and their write included.
C20_CountNeverDecreases ==
  [][\A i \in Ids \cap DOMAIN docs' :
       docs'[i].downloadCount >= docs[i].downloadCount]_vars

(***************************************************************************)
(* Properties of downloadFromDropbox.                                      *)
(***************************************************************************)
Strategies ==
  <<"filesDownload", "filesGetTemporaryLink", "sharingCreateSharedLinkWithSettings">>

\* the positions of the calls of an API in the last run
CallsOf(api) == {k \in 1..Len(resolved.calls) : resolved.calls[k].api = api}

Attempted(n) == CallsOf(Strategies[n]) # {}

\* the last run got bytes from its n-th strategy
Yielded(n) ==
  \/ n = 1 /\ \E k \in CallsOf("filesDownload") : Usable(resolved.calls[k].result)
  \/ n = 2 /\ \E k \in CallsOf("fetch link") : resolved.calls[k].result = "ok"
  \/ n = 3 /\ \E k \in CallsOf("fetch sharedUrl") : resolved.calls[k].result = "ok"

C24_StrategiesInOrder ==
  /\ \A n \in 1..3 : Cardinality(CallsOf(Strategies[n])) <= 1
  /\ \A n \in 2..3 :
       Attempted(n) =>
         /\ Attempted(n - 1) /\ ~Yielded(n - 1)
         /\ \A j \in CallsOf(Strategies[n - 1]), k \in CallsOf(Strategies[n]) : j < k
  /\ \A n \in 1..3 : Yielded(n) => \A m \in (n + 1)..3 : ~Attempted(m)
  /\ (\E n \in 1..3 : Yielded(n)) <=> resolved.result = "bytes"

\* all three strategies were attempted and the third gave the bytes
C24_Witness ==
  /\ Attempted(1) /\ Attempted(2) /\ Attempted(3) /\ Yielded(3)
  /\ resolved.result = "bytes"

\* C25: a call of the first or of the second strategy that fails with
\* not-found, auth or rate-limit is the last call of the run.
C25_TerminalFailureEndsRun ==
  \A k \in CallsOf("filesDownload") \cup CallsOf("filesGetTemporaryLink") :
    resolved.calls[k].result \in TerminalFailures => k = Len(resolved.calls)

\* C26: a run that fails after its connection test saw a terminal failure
\* or attempted all three strategies.
C26_FailureAfterAllStrategies ==
  (resolved.result \notin {"none", "bytes"} /\ Attempted(1))
    => \/ \E k \in 1..Len(resolved.calls) :
            resolved.calls[k].result \in TerminalFailures
       \/ Attempted(2) /\ Attempted(3)

\* the probes of the last download request, of the route and of the run
Probes(result) ==
  Cardinality({k \in 1..Len(calls) :
                 calls[k] = Dropbox("usersGetCurrentAccount", result)})
  + Cardinality({k \in 1..Len(resolved.calls) :
                   resolved.calls[k] = Dropbox("usersGetCurrentAccount", result)})

\* C27: a download whose connection test fails, in the route or in
\* downloadFromDropbox, is answered 500 and attempts no strategy.
C27_ProbeFailureStopsRun ==
  (last.op = "download" /\ Probes("failed") > 0)
    => /\ last.status = 500
       /\ \A n \in 1..3 : ~Attempted(n)

\* the connection test of the route passed and the one of the run failed
C27_Witness ==
  /\ last.op = "download" /\ last.status = 500
  /\ resolved.calls = <<Dropbox("usersGetCurrentAccount", "failed")>>
  /\ Dropbox("usersGetCurrentAccount", "ok") \in {calls[k] : k \in 1..Len(calls)}

\* C28: a granted download request issues usersGetCurrentAccount once.
C28_ProbeOnce ==
  (last.op = "download" /\ last.hasAccess)
    => Probes("ok") + Probes("failed") = 1

\* C29: a run that created a shared link calls sharingRevokeSharedLink
\* after it, and a failed revoke leaves the bytes of the run.
C29_SharedLinkRevoked ==
  /\ \A k \in CallsOf("sharingCreateSharedLinkWithSettings") :
       resolved.calls[k].result = "url"
         => \E j \in CallsOf("sharingRevokeSharedLink") : k < j
  /\ Dropbox("sharingRevokeSharedLink", "failed")
       \in {resolved.calls[k] : k \in 1..Len(resolved.calls)}
       => resolved.result = "bytes"

(***************************************************************************)
(* The version history of a chain.                                         *)
(***************************************************************************)
HistoryIds(i) ==
  {docs[i].versionHistory[k].documentId : k \in 1..Len(docs[i].versionHistory)}

\* C30: after uploads and deletes that run one after the other, the records
\* of a chain carry the same versionHistory, with one entry for each record
\* of the chain and no other entry.
C30_HistoryInSync ==
  \A i \in Ids :
    /\ \A j \in ChainOf(i) : docs[j].versionHistory = docs[i].versionHistory
    /\ HistoryIds(i) = ChainOf(i)
    /\ Len(docs[i].versionHistory) = Cardinality(ChainOf(i))

(***************************************************************************)
(* Interleaved uploads and deletes.                                        *)
(***************************************************************************)
Requests == 1..Len(inflight)

\* two uploads to one chain that read the same existingDocs[0], both answered
SameRead(a, b) ==
  /\ a # b
  /\ inflight[a].op = "upload" /\ inflight[b].op = "upload"
  /\ inflight[a].user = inflight[b].user /\ inflight[a].name = inflight[b].name
  /\ inflight[a].top = inflight[b].top
  /\ inflight[a].step = "done" /\ inflight[b].step = "done"

\* C22: two uploads to one chain that read the same highest version and
\* both complete leave two records of the chain with the same version
\* number.
C22_SameReadSameVersion ==
  \A a \in Requests, b \in Requests :
    SameRead(a, b) =>
      /\ inflight[a].id \in Ids /\ inflight[b].id \in Ids
      /\ inflight[a].id # inflight[b].id
      /\ docs[inflight[a].id].version = docs[inflight[b].id].version

\* both uploads read version 1 as the highest; both records have version 2
\* and both are marked latest
C22_Witness ==
  \E a \in Requests, b \in Requests :
    /\ SameRead(a, b) /\ inflight[a].top # Null
    /\ docs[inflight[a].id].version = 2 /\ docs[inflight[b].id].version = 2
    /\ docs[inflight[a].id].isLatestVersion /\ docs[inflight[b].id].isLatestVersion

\* C23: when no request is in flight, a chain has at most one record marked
\* latest, deletes of the latest record interleaved with uploads included.
C23_OneLatestAfterDelete ==
  inflight = << >> =>
    \A i \in Ids, j \in Ids :
      (j \in ChainOf(i) /\ docs[i].isLatestVersion /\ docs[j].isLatestVersion)
        => i = j

(***************************************************************************)
(* The fan-out of the version history.                                     *)
(***************************************************************************)
\* the step is an upload that saved the record id
Uploaded(id) == id = nextId /\ nextId' = nextId + 1 /\ id \in DOMAIN docs'

\* C31: an upload changes the versionHistory of no record of another chain
\* or of another owner, the upload of a version 1 included.
C31_FanOutOwnChainOnly ==
  [][\A id \in DOMAIN docs' :
       Uploaded(id) =>
         \A i \in Ids :
           (\/ docs[i].uploadedBy # docs'[id].uploadedBy
            \/ docs[i].baseFileName # docs'[id].baseFileName)
             => docs'[i].versionHistory = docs[i].versionHistory]_vars

\* the versionHistory update of the last request threw
FanOutFailed == calls # << >> /\ calls[Len(calls)] = Db("updateMany", "failed")

\* C32: an upload whose record was saved is answered 201 when the $push of
\* its versionHistory entry fails, and a delete removes its record when the
\* $pull of the entry fails.
C32_FanOutFailureSwallowed ==
  /\ (FanOutFailed /\ last.op = "upload") => last.status = 201
  /\ (FanOutFailed /\ last.op = "delete") => last.id \notin Ids

\* C33: a download whose save of the incremented downloadCount fails is
\* answered 200 with the file.
C33_CountFailureSwallowed ==
  (last.op = "download" /\ Db("save", "failed") \in CallsMade)
    => /\ last.status = 200 /\ last.message = "file sent"
       /\ Dropbox("downloadFromDropbox", "bytes") \in CallsMade

\* the file of a private record was sent to its uploader and the count of
\* the record stayed 0
C33_Witness ==
  /\ last.op = "download" /\ last.status = 200
  /\ Db("save", "failed") \in CallsMade
  /\ last.document.accessLevel = "private"
  /\ docs[last.id].downloadCount = 0

C35_FailedSaveLeavesChain ==
  [][(/\ last'.op = "upload" /\ last'.status = 400
      /\ last'.message = "Document validation failed")
       => docs' = docs]_vars

\* C36: when a delete has ended and has removed the blob of its record, the
\* record is no longer in the metadata store.
C36_NoRecordWithoutBlob ==
  (/\ last.op = "delete" /\ last.document # NoDocument
   /\ Dropbox("filesDeleteV2", "deleted") \in CallsMade)
    => last.id \notin Ids

\* C37: after uploads and deletes that run one after the other, no
\* versionHistory holds an entry whose documentId is the id of a deleted
\* record.
C37_NoEntryOfDeletedRecord ==
  \A i \in Ids : HistoryIds(i) \subseteq Ids

\* a later version was deleted and the root of its chain, which held the
\* entry of that version, is still stored and no longer holds it
C37_Witness ==
  /\ DeleteDone /\ last.id \notin Ids
  /\ last.document.version > 1
  /\ last.document.parentDocument \in Ids
  /\ docs[last.document.parentDocument].versionHistory # << >>
  /\ last.id \notin HistoryIds(last.document.parentDocument)

\* C39: after uploads and deletes that run one after the other, two
\* different records of a chain never carry the same version number, also
\* when the highest version was deleted and a new upload followed.
C39_NoSharedVersion ==
  \A i \in Ids :
    Cardinality(Versions(ChainOf(i))) = Cardinality(ChainOf(i))

\* an upload that followed the delete of a record uploaded after the root
\* of its chain, and that took the version number right above the records
\* left in the chain
C39_Witness ==
  /\ last.op = "upload" /\ last.status = 201 /\ last.id \in Ids
  /\ docs[last.id].version > 1
  /\ docs[last.id].version = Cardinality(ChainOf(last.id))
  /\ \E k \in 1..nextId :
       /\ k \notin Ids
       /\ docs[last.id].parentDocument < k /\ k < last.id

\* C38: after uploads and deletes that run one after the other, the
\* records GET /:id/versions answers for a document are exactly the stored
\* records with the uploadedBy and baseFileName of the document, also when
\* the version-1 record of the chain has been deleted.
C38_VersionsAreTheChain ==
  (last.op = "versions" /\ last.status = 200) => Listed = ChainOf(last.id)

\* the versions of a document whose chain has lost its version-1 record and
\* has gained a record after that
C38_Witness ==
  /\ last.op = "versions" /\ last.status = 200
  /\ docs[last.id].parentDocument \notin Ids \cup {Null}
  /\ Cardinality(Listed) >= 2
=============================================================================
